---------------------------- MODULE Spec2Model ----------------------------
(***************************************************************************)
(* A model of the semi-supervised training code of semantic_wmi_loss:      *)
(*   utils/data.py                       get_samplers                      *)
(*   utils/generative_trainer.py         GenerativeTrainer.main            *)
(*   semi_supervised/semi_supervised_trainer.py  SemiSupervisedTrainer     *)
(*   semi_supervised/semi_supervised_vae.py      VAESemiSupervisedTrainer  *)
(*   scripts/semi_supervised_vae.py      the command line                  *)
(* Each part of the program has its own variables, initial condition and   *)
(* next-state relation; a specification runs one part and leaves the       *)
(* variables of the other parts at their idle values.                      *)
(***************************************************************************)
EXTENDS Integers, Sequences, FiniteSets

VARIABLES
    \* ---- utils/data.py get_samplers ----
    gs_pc,              \* position in get_samplers
    labels,             \* the label array; dataset index i is labels[i + 1]
    n,                  \* requested labeled examples per class
    n_categories,       \* number of requested classes
    indices,            \* the (shuffled) indices of the requested classes
    indices_labeled,    \* sequence of dataset indices
    indices_unlabeled   \* sequence of dataset indices

VARIABLES
    \* ---- utils/generative_trainer.py GenerativeTrainer.main ----
    m_pc,               \* position in main
    m_error,            \* the exception that ended main, "" when none
    run,                \* number of the run of the program (1, 2, ...)
    resume,             \* self.resume
    num_epochs,         \* self.num_epochs
    early_stopping_lim, \* self.early_stopping_lim
    sampling,           \* num_test_samples > 0 and num_categories > 0
    best_loss,          \* self.best_loss
    net,                \* the network weights (a version number)
    epoch,              \* the loop variable of main
    vld_loss,           \* the validation loss of the current epoch
    count_valid_not_improving,
    stopped_early,      \* main left the loop by the break of line 201
    best_pt_exists,     \* <model_name>.best.pt is on disk
    best_pt,            \* its content: a dictionary
    final_pt_exists,    \* <model_name>.final.pt is on disk
    log_lines,          \* lines written to <model_name>.log in this run
    epochs_trained,     \* the epoch arguments of the calls of train, in order
    test_calls,         \* number of calls of test in this run
    scheduler_steps     \* number of scheduler.step() calls in this run

VARIABLES
    \* ---- semi_supervised_trainer.py SemiSupervisedTrainer.train ----
    t_pc,               \* position in train
    t_error,            \* the exception that left train, "" when none
    tqdm_print,         \* self.tqdm_print: "unset", "True" or "False"
    t_epoch,            \* the epoch argument
    max_grad_norm,      \* self.max_grad_norm
    batch_size,         \* batch size of both loaders (self.loader_params)
    len_labeled,        \* length of the labeled loader's sampler
    len_unlabeled,      \* length of the unlabeled loader's sampler
    taken_labeled,      \* batches taken from the labeled iterator
    taken_unlabeled,    \* batches taken from the unlabeled loader
    labeled_losses,     \* calls of labeled_loss that returned
    unlabeled_losses,   \* calls of unlabeled_loss that returned
    combined_losses,    \* evaluations of loss = loss_l + loss_u
    zero_grads,         \* calls of optimizer.zero_grad()
    clips,              \* calls of clip_grad_norm_
    optimizer_steps,    \* calls of optimizer.step()
    global_step         \* self.global_step

t_vars == <<t_pc, t_error, tqdm_print, t_epoch, max_grad_norm, batch_size,
            len_labeled, len_unlabeled, taken_labeled, taken_unlabeled,
            labeled_losses, unlabeled_losses, combined_losses, zero_grads,
            clips, optimizer_steps, global_step>>

VARIABLES
    \* ---- scripts/semi_supervised_vae.py: the command line ----
    c_pc,               \* the call that runs next, "raised" after an exception
    c_error,            \* what did not bind: [unexpected, missing, twice]
    c_flags,            \* the optional flags given on the command line
    c_attrs,            \* the attributes set on self so far
    c_model_parameters  \* the keys of the model_parameters dictionary

c_vars == <<c_pc, c_error, c_flags, c_attrs, c_model_parameters>>

VARIABLES
    \* ---- semi_supervised_vae.py VAESemiSupervisedTrainer.get_optimizer ----
    o_pc,               \* position in get_optimizer
    named_parameters,   \* the names of net.named_parameters(), in order
    lr,                 \* self.lr
    lr2,                \* self.lr2
    param_groups        \* the optimizer's groups: <<[params, lr], ...>>

o_vars == <<o_pc, named_parameters, lr, lr2, param_groups>>

VARIABLES
    \* ---- semi_supervised_vae.py VAESemiSupervisedTrainer.unlabeled_loss ----
    l_pc,               \* position in unlabeled_loss
    data,               \* the batch: one pixel per example, 0 or 1
    data_recon,         \* reconstructed[0]: one logit per example
    q_mu,               \* encoder mean per example (hidden_dim 1)
    q_logvar,           \* encoder log variance per example
    q_global_means,     \* the class means, one per category
    log_q_ys,           \* per example the log-probabilities of the classes
    returned_loss       \* the value unlabeled_loss returns

l_vars == <<l_pc, data, data_recon, q_mu, q_logvar, q_global_means, log_q_ys,
            returned_loss>>

VARIABLES
    \* ---- vaelib/vae.py VAE_Categorical.sample, sample_labelled ----
    s_pc,               \* position in sample / sample_labelled
    s_error,            \* the exception that left sample, "" when none
    s_entry,            \* the method called: "sample" or "sample_labelled"
    NUM_CATEGORIES,     \* self.NUM_CATEGORIES
    vae_means,          \* self.means: one mean per class (hidden_dim 1)
    num_samples,        \* the argument of sample
    device_given,       \* sample was called with the keyword device
    sample_labels,      \* labels: rows of NUM_CATEGORIES numbers
    eps,                \* base_dist.sample((n_samps,)): one draw per row
    latent              \* the latent codes handed to project and decoder

s_vars == <<s_pc, s_error, s_entry, NUM_CATEGORIES, vae_means, num_samples,
            device_given, sample_labels, eps, latent>>

VARIABLES
    \* ---- experiment/datasets.py get_train_valid_loader ----
    d_pc,               \* position in get_train_valid_loader
    d_error,            \* the exception that left it, "" when none
    valid_size,         \* the argument, in units of 1 / ValidDenominator
    d_shuffle,          \* the argument shuffle
    d_dataset,          \* the argument dataset
    d_batch_size,       \* the argument batch_size
    datasets_loaded,    \* datasets constructed so far (train, valid)
    num_train,          \* len(train_dataset)
    classes,            \* the key of the meta file read into classes
    split,              \* int(np.floor(valid_size * num_train))
    train_idx,          \* indices[split:]
    valid_idx,          \* indices[:split]
    loaders_built       \* DataLoaders constructed so far

d_vars == <<d_pc, d_error, valid_size, d_shuffle, d_dataset, d_batch_size,
            datasets_loaded, num_train, classes, split, train_idx, valid_idx,
            loaders_built>>

gs_vars == <<gs_pc, labels, n, n_categories, indices, indices_labeled,
             indices_unlabeled>>

m_vars == <<m_pc, m_error, run, resume, num_epochs, early_stopping_lim,
            sampling, best_loss, net, epoch, vld_loss,
            count_valid_not_improving, stopped_early, best_pt_exists, best_pt,
            final_pt_exists, log_lines, epochs_trained, test_calls,
            scheduler_steps>>

vars == <<gs_vars, m_vars, t_vars, c_vars, o_vars, l_vars, s_vars, d_vars>>

\* what an action of one part leaves alone: the other parts
not_gs == <<m_vars, t_vars, c_vars, o_vars, l_vars, s_vars, d_vars>>
not_m == <<gs_vars, t_vars, c_vars, o_vars, l_vars, s_vars, d_vars>>
not_t == <<gs_vars, m_vars, c_vars, o_vars, l_vars, s_vars, d_vars>>
not_c == <<gs_vars, m_vars, t_vars, o_vars, l_vars, s_vars, d_vars>>
not_o == <<gs_vars, m_vars, t_vars, c_vars, l_vars, s_vars, d_vars>>
not_l == <<gs_vars, m_vars, t_vars, c_vars, o_vars, s_vars, d_vars>>
not_s == <<gs_vars, m_vars, t_vars, c_vars, o_vars, l_vars, d_vars>>
not_d == <<gs_vars, m_vars, t_vars, c_vars, o_vars, l_vars, s_vars>>

-----------------------------------------------------------------------------
(* Bounds of the model *)

\* longest label array
MaxLabels == 4
\* largest label value that occurs in a label array
MaxLabel == 2
\* largest n_categories
MaxCategories == 2
\* largest n (labeled examples per class)
MaxPerClass == 2
\* largest num_epochs
MaxEpochs == 3
\* largest early_stopping_lim
MaxLim == 2
\* largest finite loss value
MaxLoss == 2
\* number of runs of the program on the same output directory
MaxRuns == 2
\* longest sampler of a loader given to train
MaxSamples == 4
\* largest batch size
MaxBatch == 2
\* largest number of optional flags on the command line
MaxFlags == 2
\* largest learning rate (in units of the smallest one)
MaxRate == 2
\* largest batch given to unlabeled_loss
MaxItems == 1
\* largest absolute value of an encoder mean or class mean
MaxMean == 1
\* largest num_samples given to sample, and most rows given to sample_labelled
MaxNumSamples == 2
\* largest absolute value of a draw of the base distribution
MaxEps == 1
\* largest length of the training dataset
MaxTrain == 4
\* valid_size is a multiple of 1 / ValidDenominator
ValidDenominator == 4

-----------------------------------------------------------------------------
(* Helpers on sequences *)

Range(s) == {s[i] : i \in DOMAIN s}

\* the permutations of the sequence s (np.random.shuffle, np.random.choice
\* without replacement and size len(s))
Shuffles(s) ==
    LET k == Len(s)
        P == {p \in [1..k -> 1..k] : \A i, j \in 1..k : i # j => p[i] # p[j]}
    IN  {[i \in 1..k |-> s[p[i]]] : p \in P}

\* s[:k]
Take(s, k) == SubSeq(s, 1, IF k < Len(s) THEN k ELSE Len(s))

\* number of occurrences of x in s
Count(s, x) == Cardinality({i \in DOMAIN s : s[i] = x})

RECURSIVE Flatten(_)
\* np.hstack of a list of lists
Flatten(ss) == IF ss = <<>> THEN <<>> ELSE Head(ss) \o Flatten(Tail(ss))

\* np.repeat(s, r): every element r times in a row
Repeat(s, r) == [i \in 1..(Len(s) * r) |-> s[((i - 1) \div r) + 1]]

-----------------------------------------------------------------------------
(* utils/data.py: get_samplers(labels, n, n_categories) *)

\* the label of dataset index idx
LabelOf(idx) == labels[idx + 1]

\* line 11: np.where(reduce(__or__, [labels == i for i in arange(n_categories)]))
\* the ascending indices whose label is one of 0..n_categories-1
RequestedIndices_NoClassFilter ==
    [i \in 1..Len(labels) |-> i - 1]

RequestedIndices ==
    SelectSeq([i \in 1..Len(labels) |-> i - 1],
              LAMBDA idx : \E c \in 0..(n_categories - 1) : LabelOf(idx) = c)

\* line 15: for every class the first n shuffled indices of that class
LabeledOfClass(shuffled, c) ==
    Take(SelectSeq(shuffled, LAMBDA idx : LabelOf(idx) = c), n)

SelectLabeled(shuffled) ==
    Flatten([c \in 1..n_categories |-> LabeledOfClass(shuffled, c - 1)])

\* line 17: indices[~np.in1d(indices, indices_labeled)]
SelectUnlabeled_KeepLabeled(shuffled, labeled) == shuffled

SelectUnlabeled(shuffled, labeled) ==
    SelectSeq(shuffled, LAMBDA idx : idx \notin Range(labeled))

GS_Init ==
    /\ gs_pc = "start"
    /\ labels \in UNION {[1..k -> 0..MaxLabel] : k \in 1..MaxLabels}
    /\ n \in 0..MaxPerClass
    /\ n_categories \in 1..MaxCategories
    /\ indices = <<>>
    /\ indices_labeled = <<>>
    /\ indices_unlabeled = <<>>

GS_Idle ==
    /\ gs_pc = "idle"
    /\ labels = <<0>>
    /\ n = 0
    /\ n_categories = 1
    /\ indices = <<>>
    /\ indices_labeled = <<>>
    /\ indices_unlabeled = <<>>

\* lines 11, 14: select the requested classes, shuffle in place
GS_Shuffle ==
    /\ gs_pc = "start"
    /\ indices' \in Shuffles(RequestedIndices)
    /\ gs_pc' = "shuffled"
    /\ UNCHANGED <<labels, n, n_categories, indices_labeled, indices_unlabeled>>
    /\ UNCHANGED not_gs

\* lines 15-20: the labeled indices, the rest, the repetition of the labeled
\* indices and the truncation of the unlabeled ones.  The integer division of
\* line 19 raises ZeroDivisionError when no labeled index was selected.
GS_Split ==
    /\ gs_pc = "shuffled"
    /\ LET lab == SelectLabeled(indices)
           unl == SelectUnlabeled(indices, lab)
       IN  IF Len(lab) = 0
           THEN /\ gs_pc' = "ZeroDivisionError"
                /\ UNCHANGED <<indices_labeled, indices_unlabeled>>
           ELSE LET rep == Repeat(lab, Len(unl) \div Len(lab))
                IN  /\ indices_labeled' = rep
                    /\ indices_unlabeled' = Take(unl, Len(rep))
                    /\ gs_pc' = "split"
    /\ UNCHANGED <<labels, n, n_categories, indices>>
    /\ UNCHANGED not_gs

\* lines 22-25: np.random.choice(a, len(a), replace=False) permutes a; on an
\* empty a it returns an empty array or raises ValueError, by numpy version
GS_Choice ==
    /\ gs_pc = "split"
    /\ \/ /\ indices_labeled' \in Shuffles(indices_labeled)
          /\ indices_unlabeled' \in Shuffles(indices_unlabeled)
          /\ gs_pc' = "returned"
       \/ /\ indices_labeled = <<>>
          /\ gs_pc' = "ValueError"
          /\ UNCHANGED <<indices_labeled, indices_unlabeled>>
    /\ UNCHANGED <<labels, n, n_categories, indices>>
    /\ UNCHANGED not_gs

GS_Next == GS_Shuffle \/ GS_Split \/ GS_Choice

-----------------------------------------------------------------------------
(* utils/generative_trainer.py: GenerativeTrainer.main *)

\* np.inf, np.nan and the finite losses 0..MaxLoss
Inf == MaxLoss + 1
NaN == 0 - 1
LossValues == (0..MaxLoss) \cup {Inf, NaN}

\* a >= b and a < b on floats: every comparison with NaN is False
GreaterEq(a, b) == a # NaN /\ b # NaN /\ a >= b
Less(a, b) == a # NaN /\ b # NaN /\ a < b

\* lines 210-214: the dictionary main saves as <model_name>.best.pt
SavedState(w, v, e) == [net |-> w, valid_loss |-> v, epoch |-> e]

\* lines 174-175: the keys main reads from the loaded checkpoint
ResumeKeys == {"net", "test_loss"}

\* line 183: range(start_epoch, start_epoch + self.num_epochs), start_epoch = 0
LastEpoch_OneMore == 0 + num_epochs + 1

LastEpoch == 0 + num_epochs

\* line 199: the early-stopping test
EarlyStop(count) == count > early_stopping_lim

\* __init__ lines 53-56, 62-69: the state of a freshly constructed trainer
M_Construct(r) ==
    /\ m_pc = "start"
    /\ m_error = ""
    /\ run = r
    /\ resume \in BOOLEAN
    /\ num_epochs \in 0..MaxEpochs
    /\ early_stopping_lim \in 0..MaxLim
    /\ sampling \in BOOLEAN
    /\ best_loss = Inf
    /\ net = 0
    /\ epoch = 0
    /\ vld_loss = Inf
    /\ count_valid_not_improving = 0
    /\ stopped_early = FALSE
    /\ log_lines = 0
    /\ epochs_trained = <<>>
    /\ test_calls = 0
    /\ scheduler_steps = 0

M_Init ==
    /\ M_Construct(1)
    /\ best_pt_exists = FALSE
    /\ best_pt = SavedState(0, 0, 0)
    /\ final_pt_exists = FALSE

M_Idle ==
    /\ m_pc = "idle"
    /\ m_error = ""
    /\ run = 0
    /\ resume = FALSE
    /\ num_epochs = 0
    /\ early_stopping_lim = 0
    /\ sampling = FALSE
    /\ best_loss = Inf
    /\ net = 0
    /\ epoch = 0
    /\ vld_loss = Inf
    /\ count_valid_not_improving = 0
    /\ stopped_early = FALSE
    /\ log_lines = 0
    /\ epochs_trained = <<>>
    /\ test_calls = 0
    /\ scheduler_steps = 0
    /\ best_pt_exists = FALSE
    /\ best_pt = SavedState(0, 0, 0)
    /\ final_pt_exists = FALSE

M_Raise(e) ==
    /\ m_pc' = "raised"
    /\ m_error' = e

\* lines 159-181: the resume step, the optimizer, the scheduler, the counter.
\* torch.load raises when the file is missing; checkpoint[k] raises KeyError
\* for a key the dictionary does not hold.  The loss read from the checkpoint
\* goes to the local best_loss, which main does not read again.
M_Begin ==
    /\ m_pc = "start"
    /\ UNCHANGED not_m
    /\ UNCHANGED log_lines
    /\ IF ~resume
       THEN /\ m_pc' = "train"
            /\ UNCHANGED <<m_error, net>>
       ELSE IF ~best_pt_exists
       THEN /\ M_Raise("FileNotFoundError")
            /\ UNCHANGED net
       ELSE IF "net" \notin DOMAIN best_pt
       THEN /\ M_Raise("KeyError: net")
            /\ UNCHANGED net
       ELSE IF ResumeKeys \ DOMAIN best_pt # {}
       THEN /\ M_Raise("KeyError: test_loss")
            /\ net' = best_pt.net
       ELSE /\ m_pc' = "train"
            /\ net' = best_pt.net
            /\ UNCHANGED m_error
    /\ count_valid_not_improving' = 0
    /\ UNCHANGED <<run, resume, num_epochs, early_stopping_lim, sampling,
                   best_loss, epoch, vld_loss, stopped_early, best_pt_exists,
                   best_pt, final_pt_exists, epochs_trained, test_calls,
                   scheduler_steps>>

\* lines 183, 185: the loop test and loss = self.train(epoch, optimizer).
\* train is the subclass's: it updates the weights and returns, or raises
\* (the base class's raises NotImplementedError).  The loss it returns goes
\* to the log only.
M_Train ==
    /\ m_pc = "train"
    /\ UNCHANGED not_m
    /\ UNCHANGED log_lines
    /\ epoch < LastEpoch
    /\ epochs_trained' = Append(epochs_trained, epoch)
    /\ \/ /\ net' = net + 1
          /\ m_pc' = "test"
          /\ UNCHANGED m_error
       \/ /\ M_Raise("train")
          /\ UNCHANGED net
    /\ UNCHANGED <<run, resume, num_epochs, early_stopping_lim, sampling,
                   best_loss, epoch, vld_loss, count_valid_not_improving,
                   stopped_early, best_pt_exists, best_pt, final_pt_exists,
                   test_calls, scheduler_steps>>

\* line 186: vld_loss = self.test(epoch, optimizer)
M_Test ==
    /\ m_pc = "test"
    /\ UNCHANGED not_m
    /\ UNCHANGED log_lines
    /\ test_calls' = test_calls + 1
    /\ \/ /\ vld_loss' \in LossValues
          /\ m_pc' = "scheduler"
          /\ UNCHANGED m_error
       \/ /\ M_Raise("test")
          /\ UNCHANGED vld_loss
    /\ UNCHANGED <<run, resume, num_epochs, early_stopping_lim, sampling,
                   best_loss, net, epoch, count_valid_not_improving,
                   stopped_early, best_pt_exists, best_pt, final_pt_exists,
                   epochs_trained, scheduler_steps>>

\* line 188: scheduler.step()
M_SchedulerStep ==
    /\ m_pc = "scheduler"
    /\ UNCHANGED not_m
    /\ UNCHANGED log_lines
    /\ scheduler_steps' = scheduler_steps + 1
    /\ m_pc' = "judge"
    /\ UNCHANGED <<m_error, run, resume, num_epochs, early_stopping_lim,
                   sampling, best_loss, net, epoch, vld_loss,
                   count_valid_not_improving, stopped_early, best_pt_exists,
                   best_pt, final_pt_exists, epochs_trained, test_calls>>

\* lines 190-217: the log line, the early-stopping count, the two breaks, the
\* checkpoint
M_Judge ==
    /\ m_pc = "judge"
    /\ UNCHANGED not_m
    /\ LET count == IF GreaterEq(vld_loss, best_loss)
                    THEN count_valid_not_improving + 1
                    ELSE 0
       IN  /\ count_valid_not_improving' = count
           /\ IF EarlyStop(count)
              THEN /\ stopped_early' = TRUE
                   /\ m_pc' = "finish"
                   /\ UNCHANGED <<best_loss, best_pt_exists, best_pt>>
              ELSE IF vld_loss = NaN
              THEN /\ m_pc' = "finish"
                   /\ UNCHANGED <<stopped_early, best_loss, best_pt_exists,
                                  best_pt>>
              ELSE /\ m_pc' = "sample"
                   /\ UNCHANGED stopped_early
                   /\ IF Less(vld_loss, best_loss)
                      THEN /\ best_pt_exists' = TRUE
                           /\ best_pt' = SavedState(net, vld_loss, epoch)
                           /\ best_loss' = vld_loss
                      ELSE UNCHANGED <<best_loss, best_pt_exists, best_pt>>
    /\ log_lines' = IF vld_loss # NaN THEN log_lines + 1 ELSE log_lines
    /\ UNCHANGED <<m_error, run, resume, num_epochs, early_stopping_lim,
                   sampling, net, epoch, vld_loss, final_pt_exists,
                   epochs_trained, test_calls, scheduler_steps>>

\* lines 219-226 and the loop increment: the sample image of the epoch.
\* The indexing of line 222 and the view of line 225 raise for a network
\* whose num_categories or image size they do not fit.
M_Sample ==
    /\ m_pc = "sample"
    /\ UNCHANGED not_m
    /\ UNCHANGED log_lines
    /\ \/ /\ epoch' = epoch + 1
          /\ m_pc' = "train"
          /\ UNCHANGED m_error
       \/ /\ sampling
          /\ M_Raise("sample")
          /\ UNCHANGED epoch
    /\ UNCHANGED <<run, resume, num_epochs, early_stopping_lim, sampling,
                   best_loss, net, vld_loss, count_valid_not_improving,
                   stopped_early, best_pt_exists, best_pt, final_pt_exists,
                   epochs_trained, test_calls, scheduler_steps>>

\* lines 228-233: after the loop, close the log and save <model_name>.final.pt
M_Finish ==
    /\ UNCHANGED not_m
    /\ \/ m_pc = "finish"
       \/ m_pc = "train" /\ ~(epoch < LastEpoch)
    /\ final_pt_exists' = TRUE
    /\ m_pc' = "done"
    /\ UNCHANGED log_lines
    /\ UNCHANGED <<m_error, run, resume, num_epochs, early_stopping_lim,
                   sampling, best_loss, net, epoch, vld_loss,
                   count_valid_not_improving, stopped_early, best_pt_exists,
                   best_pt, epochs_trained, test_calls, scheduler_steps>>

\* the program is run again on the same output directory: a new trainer is
\* constructed (which opens the log with "w"), the checkpoints of the earlier
\* run are still there
M_RunAgain ==
    /\ m_pc \in {"done", "raised"}
    /\ run < MaxRuns
    /\ m_pc' = "start"
    /\ m_error' = ""
    /\ run' = run + 1
    /\ resume' \in BOOLEAN
    /\ num_epochs' \in 0..MaxEpochs
    /\ early_stopping_lim' \in 0..MaxLim
    /\ sampling' \in BOOLEAN
    /\ best_loss' = Inf
    /\ net' = 0
    /\ epoch' = 0
    /\ vld_loss' = Inf
    /\ count_valid_not_improving' = 0
    /\ stopped_early' = FALSE
    /\ log_lines' = 0
    /\ epochs_trained' = <<>>
    /\ test_calls' = 0
    /\ scheduler_steps' = 0
    /\ UNCHANGED <<best_pt_exists, best_pt, final_pt_exists>>
    /\ UNCHANGED not_m

M_Next ==
    \/ M_Begin
    \/ M_Train
    \/ M_Test
    \/ M_SchedulerStep
    \/ M_Judge
    \/ M_Sample
    \/ M_Finish
    \/ M_RunAgain

-----------------------------------------------------------------------------
(* semi_supervised_trainer.py: SemiSupervisedTrainer.train *)

\* len(DataLoader): ceil(len(sampler) / batch_size), drop_last is False
NumBatches(len) == (len + batch_size - 1) \div batch_size

\* data.size(0) of batch number k (1, 2, ...) of a sampler of length len
BatchItems(k, len) ==
    IF k * batch_size <= len THEN batch_size ELSE len - (k - 1) * batch_size

\* line 114: the unlabeled step runs when epoch > -1
RunsUnlabeledStep_AfterFirstEpoch == t_epoch > 0

RunsUnlabeledStep == t_epoch > 0 - 1

\* line 127: gradients are clipped when max_grad_norm > 0
ClipsGradients == max_grad_norm > 0

T_Init ==
    /\ t_pc = "enter"
    /\ t_error = ""
    /\ tqdm_print \in {"unset", "True", "False"}
    /\ t_epoch \in 0..MaxEpochs
    /\ max_grad_norm \in {0, 1}
    /\ batch_size \in 1..MaxBatch
    /\ len_labeled \in 0..MaxSamples
    /\ len_unlabeled \in 0..MaxSamples
    /\ taken_labeled = 0
    /\ taken_unlabeled = 0
    /\ labeled_losses = 0
    /\ unlabeled_losses = 0
    /\ combined_losses = 0
    /\ zero_grads = 0
    /\ clips = 0
    /\ optimizer_steps = 0
    /\ global_step = 0

T_Idle ==
    /\ t_pc = "idle"
    /\ t_error = ""
    /\ tqdm_print = "unset"
    /\ t_epoch = 0
    /\ max_grad_norm = 1
    /\ batch_size = 1
    /\ len_labeled = 0
    /\ len_unlabeled = 0
    /\ taken_labeled = 0
    /\ taken_unlabeled = 0
    /\ labeled_losses = 0
    /\ unlabeled_losses = 0
    /\ combined_losses = 0
    /\ zero_grads = 0
    /\ clips = 0
    /\ optimizer_steps = 0
    /\ global_step = 0

T_Raise(e) ==
    /\ t_pc' = "raised"
    /\ t_error' = e

\* lines 79-91: net.train(), the meter, iter() of the labeled loader and the
\* progress bar, which reads self.tqdm_print (no class of the hierarchy sets it)
T_Enter ==
    /\ t_pc = "enter"
    /\ UNCHANGED not_t
    /\ IF tqdm_print = "unset"
       THEN T_Raise("AttributeError: tqdm_print")
       ELSE /\ t_pc' = "for"
            /\ UNCHANGED t_error
    /\ UNCHANGED <<tqdm_print, t_epoch, max_grad_norm, batch_size,
                   len_labeled, len_unlabeled, taken_labeled, taken_unlabeled,
                   labeled_losses, unlabeled_losses, combined_losses,
                   zero_grads, clips, optimizer_steps, global_step>>

\* line 92: the for statement takes the next unlabeled batch
T_NextUnlabeled ==
    /\ t_pc = "for"
    /\ UNCHANGED not_t
    /\ taken_unlabeled < NumBatches(len_unlabeled)
    /\ taken_unlabeled' = taken_unlabeled + 1
    /\ t_pc' = "next"
    /\ UNCHANGED <<t_error, tqdm_print, t_epoch, max_grad_norm, batch_size,
                   len_labeled, len_unlabeled, taken_labeled, labeled_losses,
                   unlabeled_losses, combined_losses, zero_grads, clips,
                   optimizer_steps, global_step>>

\* line 94: next() on the labeled iterator; StopIteration when it is exhausted
T_NextLabeled ==
    /\ t_pc = "next"
    /\ UNCHANGED not_t
    /\ IF taken_labeled < NumBatches(len_labeled)
       THEN /\ taken_labeled' = taken_labeled + 1
            /\ t_pc' = "loss"
            /\ UNCHANGED t_error
       ELSE /\ T_Raise("StopIteration")
            /\ UNCHANGED taken_labeled
    /\ UNCHANGED <<tqdm_print, t_epoch, max_grad_norm, batch_size,
                   len_labeled, len_unlabeled, taken_unlabeled,
                   labeled_losses, unlabeled_losses, combined_losses,
                   zero_grads, clips, optimizer_steps, global_step>>

\* lines 97-124: zero_grad, the labeled step, the unlabeled step, the sum.
\* labeled_loss and unlabeled_loss are the subclass's: each returns or raises
\* (the base class's raise NotImplementedError).
T_Loss ==
    /\ t_pc = "loss"
    /\ UNCHANGED not_t
    /\ zero_grads' = zero_grads + 1
    /\ \/ /\ labeled_losses' = labeled_losses + 1
          /\ unlabeled_losses' =
                IF RunsUnlabeledStep THEN unlabeled_losses + 1
                                     ELSE unlabeled_losses
          /\ combined_losses' = combined_losses + 1
          /\ t_pc' = "backward"
          /\ UNCHANGED t_error
       \/ /\ T_Raise("labeled_loss")
          /\ UNCHANGED <<labeled_losses, unlabeled_losses, combined_losses>>
       \/ /\ RunsUnlabeledStep
          /\ T_Raise("unlabeled_loss")
          /\ labeled_losses' = labeled_losses + 1
          /\ UNCHANGED <<unlabeled_losses, combined_losses>>
    /\ UNCHANGED <<tqdm_print, t_epoch, max_grad_norm, batch_size,
                   len_labeled, len_unlabeled, taken_labeled, taken_unlabeled,
                   clips, optimizer_steps, global_step>>

\* lines 125-136: backward, clipping, the optimizer step, the meter and
\* global_step += data_u.size(0)
T_Step ==
    /\ t_pc = "backward"
    /\ UNCHANGED not_t
    /\ clips' = IF ClipsGradients THEN clips + 1 ELSE clips
    /\ optimizer_steps' = optimizer_steps + 1
    /\ global_step' = global_step + BatchItems(taken_unlabeled, len_unlabeled)
    /\ t_pc' = "for"
    /\ UNCHANGED <<t_error, tqdm_print, t_epoch, max_grad_norm, batch_size,
                   len_labeled, len_unlabeled, taken_labeled, taken_unlabeled,
                   labeled_losses, unlabeled_losses, combined_losses,
                   zero_grads>>

\* lines 92, 138: the unlabeled loader is exhausted, train returns the average
T_Return ==
    /\ t_pc = "for"
    /\ UNCHANGED not_t
    /\ ~(taken_unlabeled < NumBatches(len_unlabeled))
    /\ t_pc' = "returned"
    /\ UNCHANGED <<t_error, tqdm_print, t_epoch, max_grad_norm, batch_size,
                   len_labeled, len_unlabeled, taken_labeled, taken_unlabeled,
                   labeled_losses, unlabeled_losses, combined_losses,
                   zero_grads, clips, optimizer_steps, global_step>>

T_Next ==
    \/ T_Enter
    \/ T_NextUnlabeled
    \/ T_NextLabeled
    \/ T_Loss
    \/ T_Step
    \/ T_Return

-----------------------------------------------------------------------------
(* scripts/semi_supervised_vae.py: gmm --input-data=.. --output-data=.. run *)

\* Binding the arguments of a call to the parameters of a function without
\* *args and **kwargs.  sig = [params: the parameter names in order (without
\* self), required: those without a default]; call = [positional: number of
\* positional arguments, keywords: the keyword names].  Python raises
\* TypeError when a keyword is no parameter, a parameter gets two values or
\* a required parameter gets none.
NoFault == [unexpected |-> {}, missing |-> {}, twice |-> {}]

Bind(sig, call) ==
    LET byPosition == {sig.params[i] :
                          i \in {j \in DOMAIN sig.params : j <= call.positional}}
    IN  [unexpected |-> call.keywords \ Range(sig.params),
         missing    |-> sig.required \ (byPosition \cup call.keywords),
         twice      |-> call.keywords \cap byPosition]

\* semi_supervised_vae.py lines 28-50
Sig_VAESemiSupervisedTrainer ==
    [params |-> <<"input_data", "output_data", "dataset", "max_grad_norm",
                  "hidden_dim", "num_epochs", "kernel_num", "batch_size",
                  "lr2", "lr", "use_cuda", "num_test_samples", "seed",
                  "gamma", "resume", "early_stopping_lim",
                  "additional_model_config_args", "num_loader_workers",
                  "num_labeled_data_per_class", "name">>,
     required |-> {"input_data", "output_data"}]

\* semi_supervised_trainer.py lines 27-48
Sig_SemiSupervisedTrainer ==
    [params |-> <<"model_builder", "model_parameters", "input_data",
                  "output_data", "dataset", "max_grad_norm", "num_epochs",
                  "batch_size", "lr", "use_cuda", "num_test_samples", "seed",
                  "gamma", "resume", "early_stopping_lim",
                  "additional_model_config_args", "num_loader_workers",
                  "num_labeled_data_per_class", "name">>,
     required |-> {"model_builder", "model_parameters", "input_data",
                   "output_data"}]

\* generative_trainer.py lines 27-47
Sig_GenerativeTrainer ==
    [params |-> <<"model_builder", "model_parameters", "input_torch_datasets",
                  "output_data", "max_grad_norm", "num_epochs", "batch_size",
                  "lr", "use_cuda", "num_test_samples", "seed", "gamma",
                  "resume", "early_stopping_lim",
                  "additional_model_config_args", "num_loader_workers",
                  "data_shuffle", "name">>,
     required |-> {"model_builder", "model_parameters", "input_torch_datasets",
                   "output_data"}]

\* the optional flags of the gmm command: the parameters with a default
OptionalFlags ==
    Range(Sig_VAESemiSupervisedTrainer.params)
        \ Sig_VAESemiSupervisedTrainer.required

\* fire calls the class with the flags of the command line as keywords
Call_Fire ==
    [positional |-> 0,
     keywords |-> {"input_data", "output_data"} \cup c_flags]

\* semi_supervised_vae.py lines 59-79: super().__init__(...)
Call_VAE_super ==
    [positional |-> 2,
     keywords |-> {"input_data", "output_data", "dataset", "max_grad_norm",
                   "num_epochs", "batch_size", "lr", "use_cuda",
                   "num_test_samples", "seed", "gamma", "resume",
                   "early_stopping_lim", "additional_model_config_args",
                   "num_loader_workers", "num_labeled_data_per_class",
                   "name"}]

\* semi_supervised_trainer.py lines 51-70: super().__init__(...)
Call_SemiSupervised_super ==
    [positional |-> 2,
     keywords |-> {"input_data", "output_data", "max_grad_norm", "num_epochs",
                   "batch_size", "lr", "use_cuda", "num_test_samples", "seed",
                   "gamma", "resume", "early_stopping_lim",
                   "additional_model_config_args", "num_loader_workers",
                   "data_shuffle", "name"}]

C_Init ==
    /\ c_pc = "fire"
    /\ c_error = NoFault
    /\ c_flags \in {f \in SUBSET OptionalFlags : Cardinality(f) <= MaxFlags}
    /\ c_attrs = {}
    /\ c_model_parameters = {}

C_Idle ==
    /\ c_pc = "idle"
    /\ c_error = NoFault
    /\ c_flags = {}
    /\ c_attrs = {}
    /\ c_model_parameters = {}

\* the call f(...) of `call` to a function of signature `sig`: control goes to
\* the callee, or TypeError leaves the program
C_Call(sig, call, callee) ==
    IF Bind(sig, call) = NoFault
    THEN /\ c_pc' = callee
         /\ UNCHANGED c_error
    ELSE /\ c_pc' = "raised"
         /\ c_error' = Bind(sig, call)

\* scripts/semi_supervised_vae.py lines 9-13: fire constructs the class of
\* the gmm command
C_Fire ==
    /\ c_pc = "fire"
    /\ UNCHANGED not_c
    /\ C_Call(Sig_VAESemiSupervisedTrainer, Call_Fire,
              "VAESemiSupervisedTrainer.__init__")
    /\ UNCHANGED <<c_flags, c_attrs, c_model_parameters>>

\* semi_supervised_vae.py lines 51-79
C_VAEInit ==
    /\ c_pc = "VAESemiSupervisedTrainer.__init__"
    /\ UNCHANGED not_c
    /\ c_model_parameters' = {"data_dim", "hidden_dim", "kernel_num"}
    /\ c_attrs' = c_attrs \cup {"lr2", "hidden_dim"}
    /\ C_Call(Sig_SemiSupervisedTrainer, Call_VAE_super,
              "SemiSupervisedTrainer.__init__")
    /\ UNCHANGED c_flags

\* semi_supervised_trainer.py lines 49-70
C_SemiSupervisedInit ==
    /\ c_pc = "SemiSupervisedTrainer.__init__"
    /\ UNCHANGED not_c
    /\ c_attrs' = c_attrs \cup {"num_labeled_data_per_class", "dataset"}
    /\ C_Call(Sig_GenerativeTrainer, Call_SemiSupervised_super,
              "GenerativeTrainer.__init__")
    /\ UNCHANGED <<c_flags, c_model_parameters>>

C_Next ==
    \/ C_Fire
    \/ C_VAEInit
    \/ C_SemiSupervisedInit

-----------------------------------------------------------------------------
(* semi_supervised_vae.py: VAESemiSupervisedTrainer.get_optimizer *)

\* names of parameters of the network (vae.py lines 165-194), in the order
\* of registration; a network holds some of them
ParameterNames ==
    <<"encoder.0.0.weight", "q_mean.weight", "q_logvar.weight",
      "q_logvar.bias", "project.weight", "means", "q_log_var">>

\* line 91
params_ == {"means", "q_log_var"}

\* line 92: the parameters whose name is in params_
MeansParams == SelectSeq(named_parameters, LAMBDA name : name \in params_)

\* lines 93-94: the parameters whose name is not in params_
BaseParams_SameFilter ==
    SelectSeq(named_parameters, LAMBDA name : name \in params_)

BaseParams == SelectSeq(named_parameters, LAMBDA name : name \notin params_)

\* lines 96-98: Adam([{params, lr: lr2}, {params: base_params}], lr=self.lr);
\* a group without "lr" gets the optimizer's default, self.lr
AdamGroups ==
    <<[params |-> MeansParams, lr |-> lr2], [params |-> BaseParams, lr |-> lr]>>

O_Init ==
    /\ o_pc = "start"
    /\ named_parameters \in
          {SelectSeq(ParameterNames, LAMBDA name : name \in chosen) :
              chosen \in SUBSET Range(ParameterNames)}
    /\ lr \in 1..MaxRate
    /\ lr2 \in 1..MaxRate
    /\ param_groups = <<>>

O_Idle ==
    /\ o_pc = "idle"
    /\ named_parameters = <<>>
    /\ lr = 1
    /\ lr2 = 1
    /\ param_groups = <<>>

\* lines 87-98
O_GetOptimizer ==
    /\ o_pc = "start"
    /\ UNCHANGED not_o
    /\ param_groups' = AdamGroups
    /\ o_pc' = "returned"
    /\ UNCHANGED <<named_parameters, lr, lr2>>

O_Next == O_GetOptimizer

-----------------------------------------------------------------------------
(* semi_supervised_vae.py: VAESemiSupervisedTrainer.unlabeled_loss *)
(* Probabilities and logarithms are in thousandths, on a grid where exp    *)
(* and log are known; the loss is in millionths.                           *)

\* ln 2, ln 4 and ln(4/3) in thousandths
Ln2 == 693
Ln4 == 1386
Ln4over3 == 288
\* 1.0 in thousandths
One == 1000

\* torch.exp on the grid: exp(0) = 1, exp(-ln(4/3)) = 3/4, exp(-ln 2) = 1/2,
\* exp(-ln 4) = 1/4
Exp(x) ==
    CASE x = 0 -> One
      [] x = 0 - Ln4over3 -> 750
      [] x = 0 - Ln2 -> 500
      [] x = 0 - Ln4 -> 250

\* -log(p) on the grid
NegLog(p) ==
    CASE p = One -> 0
      [] p = 750 -> Ln4over3
      [] p = 500 -> Ln2
      [] p = 250 -> Ln4

\* torch.sigmoid of a logit given in units of ln 3: 1/4, 1/2, 3/4
Sigmoid(k) ==
    CASE k = 0 - 1 -> 250
      [] k = 0 -> 500
      [] k = 1 -> 750

RECURSIVE Sum(_)
\* .sum() of a sequence of numbers
Sum(xs) == IF xs = <<>> THEN 0 ELSE Head(xs) + Sum(Tail(xs))

\* line 139: F.binary_cross_entropy(sigmoid(data_recon), data, "sum"),
\* in thousandths: -(x log p + (1 - x) log(1 - p)) summed over the batch
BCE(recon, x) ==
    Sum([b \in DOMAIN x |->
            IF x[b] = 1 THEN NegLog(Sigmoid(recon[b]))
                        ELSE NegLog(One - Sigmoid(recon[b]))])

\* line 149 for one example, times two, in thousandths:
\* -(1 + q_logvar - (q_mu - q_means)^2 - exp(q_logvar))
KLD_cont(mu, logvar, mean) ==
    0 - (One + logvar - (mu - mean) * (mu - mean) * One - Exp(logvar))

\* line 151: (q_y * (q_y + log_q_y)).sum() for category cat, in millionths
CategoryTerm(logqs, cat) ==
    Sum([b \in DOMAIN logqs |->
            Exp(logqs[b][cat]) * (Exp(logqs[b][cat]) + logqs[b][cat])])

\* lines 132-157: the value unlabeled_loss returns, in millionths.  KLD_cont
\* of line 149 is computed for every category and not used.
UnlabeledLoss(x, recon, mu, logvar, means, logqs) ==
    LET num_categories == Len(logqs[1])
        loss_u == Sum([cat \in 1..num_categories |-> CategoryTerm(logqs, cat)])
    IN  BCE(recon, x) * One + loss_u

\* the log-probabilities of two classes, a row of a log-softmax
LogProbRows ==
    {<<0 - Ln4, 0 - Ln4over3>>, <<0 - Ln2, 0 - Ln2>>, <<0 - Ln4over3, 0 - Ln4>>}

MeanValues == (0 - MaxMean)..MaxMean

L_Init ==
    /\ l_pc = "start"
    /\ \E items \in 1..MaxItems :
          /\ data \in [1..items -> {0, 1}]
          /\ data_recon \in [1..items -> {0 - 1, 0, 1}]
          /\ q_mu \in [1..items -> MeanValues]
          /\ q_logvar \in [1..items -> {0, 0 - Ln2}]
          /\ log_q_ys \in [1..items -> LogProbRows]
    /\ q_global_means \in [1..2 -> MeanValues]
    /\ returned_loss = 0

L_Idle ==
    /\ l_pc = "idle"
    /\ data = <<0>>
    /\ data_recon = <<0>>
    /\ q_mu = <<0>>
    /\ q_logvar = <<0>>
    /\ log_q_ys = <<<<0 - Ln2, 0 - Ln2>>>>
    /\ q_global_means = <<0, 0>>
    /\ returned_loss = 0

\* lines 127-157
L_UnlabeledLoss ==
    /\ l_pc = "start"
    /\ UNCHANGED not_l
    /\ returned_loss' = UnlabeledLoss(data, data_recon, q_mu, q_logvar,
                                      q_global_means, log_q_ys)
    /\ l_pc' = "returned"
    /\ UNCHANGED <<data, data_recon, q_mu, q_logvar, q_global_means, log_q_ys>>

L_Next == L_UnlabeledLoss

-----------------------------------------------------------------------------
(* vaelib/vae.py: VAE_Categorical.sample and sample_labelled *)

\* torch.arange(k).repeat(times): the tensor 0..k-1 tiled `times` times
ArangeRepeat_Interleaved(k, times) ==
    [i \in 1..(k * times) |-> (i - 1) \div times]

ArangeRepeat(k, times) == [i \in 1..(k * times) |-> (i - 1) % k]

\* lines 349-350: zeros(rows, NUM_CATEGORIES) with
\* labels[arange(rows), columns] = 1 (columns are counted from 0)
OneHotRows(rows, columns) ==
    [i \in 1..rows |->
        [c \in 1..NUM_CATEGORIES |-> IF columns[i] = c - 1 THEN 1 ELSE 0]]

\* lines 356-357 for one row: (labels.unsqueeze(2) * (means.repeat(..)
\* + sample.unsqueeze(1).repeat(1, NUM_CATEGORIES, 1))).sum(dim=1)
LatentOfRow(row, draw) ==
    Sum([c \in 1..NUM_CATEGORIES |-> row[c] * (vae_means[c] + draw)])

EpsValues == (0 - MaxEps)..MaxEps

S_Init ==
    /\ s_pc = "start"
    /\ s_error = ""
    /\ s_entry \in {"sample", "sample_labelled"}
    /\ NUM_CATEGORIES \in 1..MaxCategories
    /\ vae_means \in [1..NUM_CATEGORIES -> MeanValues]
    /\ IF s_entry = "sample"
       THEN /\ num_samples \in 0..MaxNumSamples
            /\ device_given \in BOOLEAN
            /\ sample_labels = <<>>
       ELSE /\ num_samples = 0
            /\ device_given = FALSE
            /\ sample_labels \in
                  UNION {[1..rows -> [1..NUM_CATEGORIES -> {0, 1}]] :
                            rows \in 0..MaxNumSamples}
    /\ eps = <<>>
    /\ latent = <<>>

S_Idle ==
    /\ s_pc = "idle"
    /\ s_error = ""
    /\ s_entry = "sample"
    /\ NUM_CATEGORIES = 1
    /\ vae_means = <<0>>
    /\ num_samples = 0
    /\ device_given = FALSE
    /\ sample_labels = <<>>
    /\ eps = <<>>
    /\ latent = <<>>

\* lines 347-351: sample builds the labels and calls sample_labelled;
\* kwargs['device'] raises KeyError when the keyword was not given
S_Sample ==
    /\ s_pc = "start"
    /\ s_entry = "sample"
    /\ UNCHANGED not_s
    /\ IF ~device_given
       THEN /\ s_pc' = "raised"
            /\ s_error' = "KeyError: device"
            /\ UNCHANGED sample_labels
       ELSE LET num_test_samples == num_samples * NUM_CATEGORIES
            IN  /\ sample_labels' =
                      OneHotRows(num_test_samples,
                                 ArangeRepeat(NUM_CATEGORIES,
                                     num_test_samples \div NUM_CATEGORIES))
                /\ s_pc' = "sample_labelled"
                /\ UNCHANGED s_error
    /\ UNCHANGED <<s_entry, NUM_CATEGORIES, vae_means, num_samples,
                   device_given, eps, latent>>

\* lines 353-368: one draw of the base distribution per row, the latent code
\* of every row, then project and decoder applied to the latent codes
S_SampleLabelled ==
    /\ \/ s_pc = "sample_labelled"
       \/ s_pc = "start" /\ s_entry = "sample_labelled"
    /\ UNCHANGED not_s
    /\ LET n_samps == Len(sample_labels)
       IN  /\ eps' \in [1..n_samps -> EpsValues]
           /\ latent' = [i \in 1..n_samps |->
                            LatentOfRow(sample_labels[i], eps'[i])]
    /\ s_pc' = "returned"
    /\ UNCHANGED <<s_error, s_entry, NUM_CATEGORIES, vae_means, num_samples,
                   device_given, sample_labels>>

S_Next == S_Sample \/ S_SampleLabelled

-----------------------------------------------------------------------------
(* experiment/datasets.py: get_train_valid_loader *)

\* valid_size from one step below 0 to one step above 1
ValidSizes == (0 - 1)..(ValidDenominator + 1)

\* the names tried in torchvision.datasets.__dict__; the last is not in it
DatasetNames == {"cifar10", "cifar100", "mnist", "cifar"}

\* line 52: (valid_size >= 0) and (valid_size <= 1)
ValidSizeInRange_Open(v) == v >= 0 /\ v < ValidDenominator

ValidSizeInRange(v) == v >= 0 /\ v <= ValidDenominator

\* line 108: int(np.floor(valid_size * num_train))
SplitPoint(v, length) == (v * length) \div ValidDenominator

\* line 107: list(range(num_train))
ListRange(length) == [i \in 1..length |-> i - 1]

\* line 114: indices[split:] and indices[:split]
TrainIdx_All(idx, at) == idx

TrainIdx(idx, at) == SubSeq(idx, at + 1, Len(idx))

ValidIdx(idx, at) == SubSeq(idx, 1, at)

D_Init ==
    /\ d_pc = "start"
    /\ d_error = ""
    /\ valid_size \in ValidSizes
    /\ d_shuffle \in BOOLEAN
    /\ d_dataset \in DatasetNames
    /\ d_batch_size \in 0..MaxBatch
    /\ datasets_loaded = 0
    /\ num_train = 0
    /\ classes = ""
    /\ split = 0
    /\ train_idx = <<>>
    /\ valid_idx = <<>>
    /\ loaders_built = 0

D_Idle ==
    /\ d_pc = "idle"
    /\ d_error = ""
    /\ valid_size = 0
    /\ d_shuffle = FALSE
    /\ d_dataset = "cifar10"
    /\ d_batch_size = 1
    /\ datasets_loaded = 0
    /\ num_train = 0
    /\ classes = ""
    /\ split = 0
    /\ train_idx = <<>>
    /\ valid_idx = <<>>
    /\ loaders_built = 0

\* lines 51-52: the assertion on valid_size
D_Assert ==
    /\ d_pc = "start"
    /\ UNCHANGED not_d
    /\ IF ValidSizeInRange(valid_size)
       THEN /\ d_pc' = "asserted"
            /\ UNCHANGED d_error
       ELSE /\ d_pc' = "raised"
            /\ d_error' =
                 "AssertionError: [!] valid_size should be in the range [0, 1]."
    /\ UNCHANGED <<valid_size, d_shuffle, d_dataset, d_batch_size,
                   datasets_loaded, num_train, classes, split, train_idx,
                   valid_idx, loaders_built>>

\* lines 54-96: the transforms, then the train and the valid dataset;
\* datasets.__dict__[dataset.upper()] raises KeyError for an unknown name
D_Load ==
    /\ d_pc = "asserted"
    /\ UNCHANGED not_d
    /\ IF d_dataset \in {"cifar10", "cifar100", "mnist"}
       THEN /\ datasets_loaded' = 2
            /\ num_train' \in 0..MaxTrain
            /\ d_pc' = "loaded"
            /\ UNCHANGED d_error
       ELSE /\ d_pc' = "raised"
            /\ d_error' = "KeyError"
            /\ UNCHANGED <<datasets_loaded, num_train>>
    /\ UNCHANGED <<valid_size, d_shuffle, d_dataset, d_batch_size, classes,
                   split, train_idx, valid_idx, loaders_built>>

\* lines 98-104: the class names of the meta file; only the CIFAR datasets
\* have the attribute base_folder
D_Meta ==
    /\ d_pc = "loaded"
    /\ UNCHANGED not_d
    /\ IF d_dataset = "mnist"
       THEN /\ d_pc' = "raised"
            /\ d_error' = "AttributeError: base_folder"
            /\ UNCHANGED classes
       ELSE /\ classes' = (IF d_dataset = "cifar10"
                           THEN "label_names" ELSE "fine_label_names")
            /\ d_pc' = "meta"
            /\ UNCHANGED d_error
    /\ UNCHANGED <<valid_size, d_shuffle, d_dataset, d_batch_size,
                   datasets_loaded, num_train, split, train_idx, valid_idx,
                   loaders_built>>

\* lines 106-116: the indices, the split point, the shuffle and the two
\* index lists handed to the samplers
D_Split ==
    /\ d_pc = "meta"
    /\ UNCHANGED not_d
    /\ split' = SplitPoint(valid_size, num_train)
    /\ \E idx \in (IF d_shuffle THEN Shuffles(ListRange(num_train))
                                ELSE {ListRange(num_train)}) :
          /\ train_idx' = TrainIdx(idx, split')
          /\ valid_idx' = ValidIdx(idx, split')
    /\ d_pc' = "split"
    /\ UNCHANGED <<d_error, valid_size, d_shuffle, d_dataset, d_batch_size,
                   datasets_loaded, num_train, classes, loaders_built>>

\* lines 118-133: the two DataLoaders; DataLoader raises ValueError for a
\* batch_size that is not positive
D_Loaders ==
    /\ d_pc = "split"
    /\ UNCHANGED not_d
    /\ IF d_batch_size <= 0
       THEN /\ d_pc' = "raised"
            /\ d_error' = "ValueError: batch_size"
            /\ UNCHANGED loaders_built
       ELSE /\ loaders_built' = 2
            /\ d_pc' = "returned"
            /\ UNCHANGED d_error
    /\ UNCHANGED <<valid_size, d_shuffle, d_dataset, d_batch_size,
                   datasets_loaded, num_train, classes, split, train_idx,
                   valid_idx>>

D_Next == D_Assert \/ D_Load \/ D_Meta \/ D_Split \/ D_Loaders

-----------------------------------------------------------------------------
(* The specifications *)

InitLoaders ==
    D_Init /\ GS_Idle /\ M_Idle /\ T_Idle /\ C_Idle /\ O_Idle /\ L_Idle
           /\ S_Idle

SpecLoaders == InitLoaders /\ [][D_Next]_vars

InitSampling ==
    S_Init /\ GS_Idle /\ M_Idle /\ T_Idle /\ C_Idle /\ O_Idle /\ L_Idle
           /\ D_Idle

SpecSampling == InitSampling /\ [][S_Next]_vars

InitOptimizer == O_Init /\ GS_Idle /\ M_Idle /\ T_Idle /\ C_Idle /\ L_Idle /\ S_Idle
    /\ D_Idle

SpecOptimizer == InitOptimizer /\ [][O_Next]_vars

InitLoss == L_Init /\ GS_Idle /\ M_Idle /\ T_Idle /\ C_Idle /\ O_Idle /\ S_Idle
    /\ D_Idle

SpecLoss == InitLoss /\ [][L_Next]_vars

InitCommandLine == C_Init /\ GS_Idle /\ M_Idle /\ T_Idle /\ O_Idle /\ L_Idle /\ S_Idle
    /\ D_Idle

SpecCommandLine == InitCommandLine /\ [][C_Next]_vars

InitTrain == T_Init /\ GS_Idle /\ M_Idle /\ C_Idle /\ O_Idle /\ L_Idle /\ S_Idle
    /\ D_Idle

SpecTrain == InitTrain /\ [][T_Next]_vars

InitSamplers == GS_Init /\ M_Idle /\ T_Idle /\ C_Idle /\ O_Idle /\ L_Idle /\ S_Idle
    /\ D_Idle

SpecSamplers == InitSamplers /\ [][GS_Next]_vars

InitMain == M_Init /\ GS_Idle /\ T_Idle /\ C_Idle /\ O_Idle /\ L_Idle /\ S_Idle
    /\ D_Idle

SpecMain == InitMain /\ [][M_Next]_vars

SpecMainFair == SpecMain /\ WF_vars(M_Next)

-----------------------------------------------------------------------------
(* The claims *)

\* C1: in train the labeled and the unlabeled batches are consumed in
\* lock-step: between iterations the numbers of unlabeled batches taken, of
\* labeled batches taken, of labeled losses, of unlabeled losses, of combined
\* losses and of optimizer steps are all the same, inside an iteration they
\* differ by at most the one batch in work, and when train returns they all
\* equal the number of batches of the unlabeled loader.
C1_LockStep ==
    /\ taken_labeled <= taken_unlabeled
    /\ taken_unlabeled <= taken_labeled + 1
    /\ optimizer_steps <= combined_losses
    /\ combined_losses <= taken_labeled
    /\ taken_labeled <= optimizer_steps + 1
    /\ t_pc \in {"for", "returned"} =>
          /\ taken_labeled = taken_unlabeled
          /\ labeled_losses = taken_unlabeled
          /\ unlabeled_losses = taken_unlabeled
          /\ combined_losses = taken_unlabeled
          /\ optimizer_steps = taken_unlabeled
    /\ t_pc = "returned" =>
          /\ optimizer_steps = NumBatches(len_unlabeled)
          /\ global_step = len_unlabeled

C1_Witness ==
    /\ t_pc = "returned"
    /\ optimizer_steps >= 2
    /\ len_unlabeled % batch_size # 0
    /\ taken_labeled = optimizer_steps

\* C2 (as claimed): the documented command line constructs the trainer
\* without an argument-binding error: every keyword a constructor passes to
\* its parent is a parameter of the parent and every required parameter of
\* the parent is supplied.
C2_ConstructorsBind ==
    /\ c_pc # "raised"
    /\ c_error = NoFault

\* C3 (as claimed): early stopping happens after early_stopping_lim epochs
\* with no improvement: main never goes on to train a further epoch once the
\* count of consecutive epochs with vld_loss >= best_loss has reached
\* early_stopping_lim (stated for finite losses).
C3_StopsWhenCountReachesLim ==
    (/\ early_stopping_lim >= 1
     /\ m_pc = "test"
     /\ vld_loss \in 0..MaxLoss
     /\ best_loss \in 0..MaxLoss)
        => count_valid_not_improving < early_stopping_lim

\* C4 (as claimed): resuming from a checkpoint that main saved never fails in
\* the resume step: every key the resume step reads is a key the save wrote.
C4_ResumeFromSavedCheckpointSucceeds ==
    (resume /\ best_pt_exists /\ final_pt_exists /\ m_pc = "raised")
        => m_error \in {"train", "test", "sample"}

\* C5: the labeled and the unlabeled sampler share no dataset index.
C5_SamplersDisjoint ==
    gs_pc \in {"split", "returned"}
        => Range(indices_labeled) \cap Range(indices_unlabeled) = {}

C5_Witness ==
    /\ gs_pc = "returned"
    /\ Len(indices_labeled) >= 2
    /\ Len(indices_unlabeled) >= 2
    /\ Cardinality(Range(indices_labeled)) < Len(indices_labeled)

\* C6 (as claimed): in the labeled sampler every class 0..n_categories-1
\* occurs the same number of times.
C6_LabeledUniform ==
    gs_pc = "returned"
        => \A c, d \in 0..(n_categories - 1) :
              Cardinality({i \in DOMAIN indices_labeled :
                              LabelOf(indices_labeled[i]) = c})
            = Cardinality({i \in DOMAIN indices_labeled :
                              LabelOf(indices_labeled[i]) = d})

\* C7: every index of the labeled and of the unlabeled sampler refers to an
\* example whose label is one of 0..n_categories-1.
C7_OnlyRequestedClasses ==
    gs_pc = "returned"
        => \A idx \in Range(indices_labeled) \cup Range(indices_unlabeled) :
              LabelOf(idx) \in 0..(n_categories - 1)

C7_Witness ==
    /\ gs_pc = "returned"
    /\ indices_labeled # <<>>
    /\ indices_unlabeled # <<>>
    /\ \E i \in DOMAIN labels : labels[i] >= n_categories

\* C8: main terminates after at most num_epochs epochs, numbered 0, 1, ...;
\* in every epoch train runs first, then test, then one scheduler step.
C8_EpochOrder ==
    /\ Len(epochs_trained) <= num_epochs
    /\ \A i \in DOMAIN epochs_trained : epochs_trained[i] = i - 1
    /\ m_pc = "train" =>
          /\ Len(epochs_trained) = epoch
          /\ test_calls = epoch
          /\ scheduler_steps = epoch
    /\ m_pc = "test" =>
          /\ Len(epochs_trained) = epoch + 1
          /\ test_calls = epoch
          /\ scheduler_steps = epoch
    /\ m_pc = "scheduler" =>
          /\ Len(epochs_trained) = epoch + 1
          /\ test_calls = epoch + 1
          /\ scheduler_steps = epoch
    /\ m_pc \in {"judge", "sample", "finish"} =>
          /\ Len(epochs_trained) = epoch + 1
          /\ test_calls = epoch + 1
          /\ scheduler_steps = epoch + 1
    /\ m_pc = "done" =>
          /\ test_calls = Len(epochs_trained)
          /\ scheduler_steps = Len(epochs_trained)

\* C8, with termination: the order and the bound above hold in every state,
\* and every run of main that starts comes to its end (done or an exception).
C8_MainTerminates ==
    /\ []C8_EpochOrder
    /\ (m_pc = "start") ~> (m_pc \in {"done", "raised"})

C8_Witness ==
    /\ m_pc = "done"
    /\ ~stopped_early
    /\ num_epochs >= 2
    /\ scheduler_steps = num_epochs

\* C9: get_optimizer puts every named parameter of the network into exactly
\* one of the two parameter groups: 'means' and 'q_log_var' into the group
\* with learning rate lr2, every other parameter into the group with lr.
C9_TwoLearningRates ==
    o_pc = "returned" =>
        /\ Len(param_groups) = 2
        /\ param_groups[1].lr = lr2
        /\ param_groups[2].lr = lr
        /\ \A name \in Range(named_parameters) :
              /\ Count(param_groups[1].params, name)
                   + Count(param_groups[2].params, name) = 1
              /\ name \in {"means", "q_log_var"}
                   <=> name \in Range(param_groups[1].params)
        /\ Range(param_groups[1].params) \cup Range(param_groups[2].params)
              \subseteq Range(named_parameters)

C9_Witness ==
    /\ o_pc = "returned"
    /\ {"means", "q_log_var", "q_logvar.weight"} \subseteq Range(named_parameters)
    /\ lr # lr2
    /\ Len(param_groups[1].params) = 2
    /\ Len(param_groups[2].params) >= 2

\* the sum over the batch and the categories of q(y=c) times the KL term of
\* category c (twice the KL term, in millionths)
WeightedKL(means) ==
    Sum([b \in DOMAIN q_mu |->
            Sum([cat \in 1..Len(log_q_ys[b]) |->
                    Exp(log_q_ys[b][cat])
                        * KLD_cont(q_mu[b], q_logvar[b], means[cat])])])

\* C10 (as claimed): the loss unlabeled_loss returns includes the KL terms to
\* the class means weighted by q(y=c), so it depends on the class means: with
\* other class means that change the weighted KL term, and everything else
\* the same, the loss is another one.
C10_LossDependsOnClassMeans ==
    l_pc = "returned" =>
        \A means \in [1..2 -> MeanValues] :
            WeightedKL(means) # WeightedKL(q_global_means)
                => UnlabeledLoss(data, data_recon, q_mu, q_logvar, means,
                                 log_q_ys) # returned_loss

\* row is the one-hot row of class c (c counted from 0)
IsOneHot(row, c) == \A k \in DOMAIN row : row[k] = (IF k = c + 1 THEN 1 ELSE 0)

\* C11: sample_labelled decodes, for every one-hot row of class c, the latent
\* code means[c] + eps with eps the one draw of that row; sample(num_samples)
\* builds num_samples * NUM_CATEGORIES one-hot rows, row i (from 0) of class
\* i mod NUM_CATEGORIES, so every class is sampled num_samples times.
C11_SamplingTiedToClassMeans ==
    /\ s_pc = "returned" =>
          /\ Len(latent) = Len(sample_labels)
          /\ \A i \in DOMAIN sample_labels :
                \A c \in 0..(NUM_CATEGORIES - 1) :
                    IsOneHot(sample_labels[i], c)
                        => latent[i] = vae_means[c + 1] + eps[i]
    /\ (s_entry = "sample" /\ s_pc \in {"sample_labelled", "returned"}) =>
          /\ Len(sample_labels) = num_samples * NUM_CATEGORIES
          /\ \A i \in DOMAIN sample_labels :
                IsOneHot(sample_labels[i], (i - 1) % NUM_CATEGORIES)
          /\ \A c \in 0..(NUM_CATEGORIES - 1) :
                Cardinality({i \in DOMAIN sample_labels :
                                IsOneHot(sample_labels[i], c)}) = num_samples

C11_Witness ==
    /\ s_pc = "returned"
    /\ s_entry = "sample"
    /\ NUM_CATEGORIES >= 2
    /\ num_samples >= 2
    /\ vae_means[1] # vae_means[2]
    /\ eps[1] # eps[2]
    /\ latent[2] = vae_means[2] + eps[2]

AssertionMessage ==
    "AssertionError: [!] valid_size should be in the range [0, 1]."

\* C12: a call of get_train_valid_loader with valid_size < 0 or valid_size > 1
\* fails with the assertion error before any dataset is loaded or any loader
\* is built, and a call with valid_size in [0, 1] never fails the assertion.
C12_ValidSizeAsserted ==
    /\ (d_pc # "idle" /\ d_pc # "start"
            /\ (valid_size < 0 \/ valid_size > ValidDenominator)) =>
          /\ d_pc = "raised"
          /\ d_error = AssertionMessage
          /\ datasets_loaded = 0
          /\ loaders_built = 0
    /\ (valid_size >= 0 /\ valid_size <= ValidDenominator) =>
          d_error # AssertionMessage

C12_Witness ==
    /\ d_pc = "raised"
    /\ d_error = AssertionMessage
    /\ valid_size > ValidDenominator
    /\ d_dataset = "cifar10"
    /\ d_batch_size > 0

\* C13: once get_train_valid_loader has split the indices, the training and
\* the validation indices are disjoint, together are exactly
\* 0..num_train-1, the validation set has floor(valid_size * num_train)
\* indices, and with shuffle=False they are the first ones.
C13_SplitIsPartition ==
    d_pc \in {"split", "returned"} =>
        LET size == CHOOSE k \in 0..num_train :
                        /\ k * ValidDenominator <= valid_size * num_train
                        /\ (k + 1) * ValidDenominator > valid_size * num_train
        IN  /\ Range(train_idx) \cap Range(valid_idx) = {}
            /\ Range(train_idx) \cup Range(valid_idx) = 0..(num_train - 1)
            /\ Len(valid_idx) = size
            /\ Cardinality(Range(valid_idx)) = size
            /\ ~d_shuffle => Range(valid_idx) = 0..(size - 1)

C13_Witness ==
    /\ d_pc = "returned"
    /\ d_shuffle
    /\ num_train = MaxTrain
    /\ Len(valid_idx) = 1
    /\ Len(train_idx) = MaxTrain - 1
    /\ valid_idx[1] # 0

C13_WitnessInOrder ==
    /\ d_pc = "returned"
    /\ ~d_shuffle
    /\ num_train = MaxTrain
    /\ valid_idx = <<0, 1>>

=============================================================================
